---- MODULE Spec2Model ----
(***************************************************************************)
(* Model of src/main.py: the interactive loop of the local math agent, its *)
(* response parser, its tool dispatch and its three handlers (calculate,   *)
(* convert, run_algorithm).                                                *)
(*                                                                         *)
(* A Python str is a sequence of one-character strings, so that lower(),   *)
(* concatenation, split, rstrip and count are computed character by        *)
(* character.  Texts whose characters never matter (the two prompts, a     *)
(* formatted number) are sequences holding one opaque piece.               *)
(***************************************************************************)
EXTENDS Integers, Sequences, FiniteSets, TLC

VARIABLES pc, turn, user_input, messages, message, parsed, result, out, trace

vars == <<pc, turn, user_input, messages, message, parsed, result, out, trace>>

(* ------------------------------ bounds -------------------------------- *)

MaxTurns == 2

MaxInputs == 3

(* --------------------------- Python strings --------------------------- *)

\* the upper-case ASCII letters and their lower-case forms
UpperToLower ==
  ("A" :> "a") @@ ("B" :> "b") @@ ("C" :> "c") @@ ("D" :> "d") @@ ("E" :> "e") @@
  ("F" :> "f") @@ ("G" :> "g") @@ ("H" :> "h") @@ ("I" :> "i") @@ ("J" :> "j") @@
  ("K" :> "k") @@ ("L" :> "l") @@ ("M" :> "m") @@ ("N" :> "n") @@ ("O" :> "o") @@
  ("P" :> "p") @@ ("Q" :> "q") @@ ("R" :> "r") @@ ("S" :> "s") @@ ("T" :> "t") @@
  ("U" :> "u") @@ ("V" :> "v") @@ ("W" :> "w") @@ ("X" :> "x") @@ ("Y" :> "y") @@
  ("Z" :> "z")

LowerChar(c) == IF c \in DOMAIN UpperToLower THEN UpperToLower[c] ELSE c

\* str.lower()
Lower(s) == [i \in 1..Len(s) |-> LowerChar(s[i])]

\* s.split(sep) for a one-character sep: the segments between separators
RECURSIVE Split(_, _)
Split(s, sep) ==
  IF \E i \in 1..Len(s) : s[i] = sep
  THEN LET k == CHOOSE i \in 1..Len(s) :
                   s[i] = sep /\ \A j \in 1..(i - 1) : s[j] # sep
       IN  <<SubSeq(s, 1, k - 1)>> \o Split(SubSeq(s, k + 1, Len(s)), sep)
  ELSE <<s>>

\* s.rstrip(c) for a one-character c
RECURSIVE RStrip(_, _)
RStrip(s, c) ==
  IF Len(s) > 0 /\ s[Len(s)] = c THEN RStrip(SubSeq(s, 1, Len(s) - 1), c) ELSE s

\* s.count(c) for a one-character c
Count(s, c) == Cardinality({i \in 1..Len(s) : s[i] = c})

\* str(n) for an integer n
RECURSIVE NatStr(_)
NatStr(n) ==
  LET d == <<"0","1","2","3","4","5","6","7","8","9">>[(n % 10) + 1]
  IN  IF n < 10 THEN <<d>> ELSE NatStr(n \div 10) \o <<d>>

IntStr(n) == IF n < 0 THEN <<"-">> \o NatStr(0 - n) ELSE NatStr(n)

\* ", ".join(map(str, inputs))
RECURSIVE JoinInts(_)
JoinInts(l) ==
  IF Len(l) = 0 THEN <<>>
  ELSE IF Len(l) = 1 THEN IntStr(l[1])
  ELSE IntStr(l[1]) \o <<",", " ">> \o JoinInts(Tail(l))

(* ----------------------------- literals ------------------------------- *)

S_exit == <<"e","x","i","t">>

S_none == <<"n","o","n","e">>

S_calculator == <<"c","a","l","c","u","l","a","t","o","r">>

S_converter == <<"c","o","n","v","e","r","t","e","r">>

S_algorithm == <<"a","l","g","o","r","i","t","h","m">>

S_km == <<"k","m">>

S_miles == <<"m","i","l","e","s">>

S_kg == <<"k","g">>

S_lbs == <<"l","b","s">>

S_celsius == <<"c","e","l","s","i","u","s">>

S_fahrenheit == <<"f","a","h","r","e","n","h","e","i","t">>

\* the prompt texts, whose characters play no part in the control flow
SYSTEM_PROMPT == <<"SYSTEM_PROMPT">>

RESPONSE_PROMPT == <<"You are a helpful assistant. Answer naturally in one sentence. Do not use JSON.">>

REFUSAL == "I can only handle math questions and conversions"

(* ----------------------- the operation registry ----------------------- *)

DescAB == <<"i","n","p","u","t","s",":"," ","[","a",","," ","b","]">>

DescN == <<"i","n","p","u","t","s",":"," ","[","n","]">>

DescNRoot == <<"i","n","p","u","t","s",":"," ","[","n",","," ","r","o","o","t","]">>

DescNBase == <<"i","n","p","u","t","s",":"," ","[","n",","," ","b","a","s","e","]">>

DescRadius == <<"i","n","p","u","t","s",":"," ","[","r","a","d","i","u","s","]">>

DescDegrees == <<"i","n","p","u","t","s",":"," ","[","d","e","g","r","e","e","s","]">>

\* name -> description string; the function of an entry is Invoke(name, _)
ALGORITHM_TOOLS ==
  (<<"g","c","d">> :> DescAB) @@
  (<<"l","c","m">> :> DescAB) @@
  (<<"f","a","c","t","o","r","i","a","l">> :> DescN) @@
  (<<"i","s","_","p","r","i","m","e">> :> DescN) @@
  (<<"n","t","h","_","r","o","o","t">> :> DescNRoot) @@
  (<<"l","o","g">> :> DescNBase) @@
  (<<"l","o","g","2">> :> DescN) @@
  (<<"l","o","g","1","0">> :> DescN) @@
  (<<"f","i","b","o","n","a","c","c","i">> :> DescN) @@
  (<<"c","i","r","c","l","e","_","a","r","e","a">> :> DescRadius) @@
  (<<"h","y","p","o","t","e","n","u","s","e">> :> DescAB) @@
  (<<"s","i","n">> :> DescDegrees) @@
  (<<"c","o","s">> :> DescDegrees) @@
  (<<"t","a","n">> :> DescDegrees)

(* ------------------- JSON values and Python values -------------------- *)

\* a JSON value under a key of the decoded object; "absent" = no such key
JV(ty, s, n, l) == [ty |-> ty, s |-> s, n |-> n, l |-> l]

Absent == JV("absent", <<>>, 0, <<>>)

JNull == JV("null", <<>>, 0, <<>>)

JStr(s) == JV("str", s, 0, <<>>)

JNum(n) == JV("num", <<>>, n, <<>>)

JList(l) == JV("list", <<>>, 0, l)

Keys == {"tool", "expression", "value", "from_unit", "to_unit", "operation", "inputs"}

NoFields == [k \in Keys |-> Absent]

\* what json.loads can return: None (JSON null), a dict, or a value that is
\* not a dict (list, number, string, boolean)
PyNone == [kind |-> "None", f |-> NoFields]

PyOther == [kind |-> "other", f |-> NoFields]

PyDict(f) == [kind |-> "dict", f |-> f]

\* parsed[k] raises KeyError unless the key is there
Has(p, k) == p.f[k].ty # "absent"

\* a handler's return value: None or a str (a sequence of pieces)
RNone == [isNone |-> TRUE, text |-> <<>>]

RStr(t) == [isNone |-> FALSE, text |-> t]

\* `if result:` -- None and '' are falsy, every other str is truthy
Truthy_IsNotNone(r) == ~r.isNone

Truthy(r) == ~r.isNone /\ Len(r.text) > 0

\* what a step of the turn did: raised = an exception left it uncaught
Outcome(raised, ret, o, t) == [raised |-> raised, ret |-> ret, out |-> o, trace |-> t]

Raises(o, t) == Outcome(TRUE, RNone, o, t)

\* handler h returns None after printing o
Fails(o, t) == Outcome(FALSE, RNone, o, t)

\* handler h reaches one of its `return f'Result...'` statements
Returns(text, o, t) == Outcome(FALSE, RStr(text), o, t \o <<"result">>)

(* --------------------------- parse_response --------------------------- *)

\* json.loads(s): s is a text that either decodes to the value s.json or
\* makes the decoder raise JSONDecodeError
parse_response(s) ==
  IF s.wellformed
  THEN [val |-> s.json, out |-> <<>>]
  ELSE [val |-> PyNone, out |-> <<"Error: Could not decode model response as JSON">>]

(* ------------------------------ calculate ----------------------------- *)

\* how simple_eval(expression) followed by the .2f formatting ends: with a
\* number ("value"), ZeroDivisionError, InvalidExpression, or another
\* exception.  The empty expression is InvalidExpression or IndexError,
\* depending on the release of the library.
simple_eval(expression) ==
  CASE expression = <<"1","0"," ","+"," ","5">> -> {"value"}
    [] expression = <<"1","0","/","0">> -> {"zerodiv"}
    [] expression = <<"s","q","r","t","(","2","5",")">> -> {"invalid"}
    [] expression = <<"'","a","'">> -> {"other"}
    [] expression = <<>> -> {"invalid", "other"}

calculate(p, ev) ==
  IF ~Has(p, "tool") \/ ~Has(p, "expression")
  THEN Raises(<<>>, <<"calculate">>)
  ELSE LET o == <<"Calling tool", "Expression">>
           \* an expression that is not a str makes simple_eval raise
           \* AttributeError, which `except Exception` catches
           e == IF p.f["expression"].ty = "str" THEN ev ELSE "other"
       IN  CASE e = "value" ->
                  Returns(<<"Result: ", "<.2f>">>, o, <<"calculate">>)
             [] e = "zerodiv" ->
                  Fails(o \o <<"Error: Division by zero is not allowed">>, <<"calculate">>)
             [] e = "invalid" ->
                  Fails(o \o <<"Error: Could not evaluate expression">>, <<"calculate">>)
             [] OTHER ->
                  Fails(o \o <<"Error: Unexpected error">>, <<"calculate">>)

(* ------------------------------- convert ------------------------------ *)

\* the six case patterns of the match statement
CASES ==
  { <<"k","m","_","m","i","l","e","s">>,
    <<"m","i","l","e","s","_","k","m">>,
    <<"k","g","_","l","b","s">>,
    <<"l","b","s","_","k","g">>,
    <<"c","e","l","s","i","u","s","_","f","a","h","r","e","n","h","e","i","t">>,
    <<"f","a","h","r","e","n","h","e","i","t","_","c","e","l","s","i","u","s">> }

\* from_unit + '_' + to_unit
MatchSubject_NoSeparator(from_unit, to_unit) == from_unit \o to_unit

MatchSubject(from_unit, to_unit) == from_unit \o <<"_">> \o to_unit

convert(p) ==
  IF ~Has(p, "tool") \/ ~Has(p, "value") \/ ~Has(p, "from_unit") \/ ~Has(p, "to_unit")
  THEN Raises(<<>>, <<"convert">>)
  ELSE LET value == p.f["value"]
           from_unit == p.f["from_unit"]
           to_unit == p.f["to_unit"]
           o == <<"Calling tool", "Converting">>
       IN  IF from_unit.ty # "str" \/ to_unit.ty # "str"
           THEN Raises(o, <<"convert">>)       \* TypeError in from_unit + '_' + to_unit
           ELSE IF MatchSubject(from_unit.s, to_unit.s) \in CASES
           THEN IF value.ty # "num"
                THEN Raises(o, <<"convert">>)  \* TypeError in the arithmetic
                ELSE Returns(<<"Result : ">> \o IntStr(value.n) \o <<" ">> \o from_unit.s
                               \o <<" = ", "<.2f>", " ">> \o to_unit.s,
                             o, <<"convert">>)
           ELSE Fails(o \o <<"Error: Unsupported conversion">>, <<"convert">>)

(* ---------------------------- run_algorithm --------------------------- *)

RECURSIVE Gcd(_, _)
Gcd(a, b) == IF b = 0 THEN a ELSE Gcd(b, a % b)

Abs(n) == IF n < 0 THEN 0 - n ELSE n

RECURSIVE Factorial(_)
Factorial(n) == IF n <= 1 THEN 1 ELSE n * Factorial(n - 1)

\* n > 1 and all(n % i != 0 for i in range(2, int(n ** 0.5) + 1))
IsPrime(n) == n > 1 /\ \A i \in 2..n : (i * i <= n) => (n % i # 0)

\* func(*inputs) raises, for a list of integers of the right length
FuncRaises(operation, l) ==
  CASE operation = <<"f","a","c","t","o","r","i","a","l">> -> l[1] < 0
    [] operation = <<"n","t","h","_","r","o","o","t">> -> l[2] = 0 \/ (l[1] = 0 /\ l[2] < 0)
    [] operation = <<"l","o","g">> -> l[1] <= 0 \/ l[2] <= 0 \/ l[2] = 1
    [] operation = <<"l","o","g","2">> -> l[1] <= 0
    [] operation = <<"l","o","g","1","0">> -> l[1] <= 0
    [] OTHER -> FALSE

\* str(func(*inputs)); a float or a Binet value is one opaque piece
FuncValue(operation, l) ==
  CASE operation = <<"g","c","d">> -> IntStr(Gcd(Abs(l[1]), Abs(l[2])))
    [] operation = <<"l","c","m">> ->
         IF l[1] = 0 \/ l[2] = 0 THEN IntStr(0)
         ELSE IntStr(Abs(l[1] * l[2]) \div Gcd(Abs(l[1]), Abs(l[2])))
    [] operation = <<"f","a","c","t","o","r","i","a","l">> -> IntStr(Factorial(l[1]))
    [] operation = <<"i","s","_","p","r","i","m","e">> ->
         IF IsPrime(l[1]) THEN <<"True">> ELSE <<"False">>
    [] OTHER -> <<"<number>">>

\* int(desc.split('[')[1].rstrip(']').count(',')) + 1
expected_NoPlusOne(desc) == Count(RStrip(Split(desc, "[")[2], "]"), ",")

expected(desc) == Count(RStrip(Split(desc, "[")[2], "]"), ",") + 1

\* lines 209-222: the operation is a key of the registry
invoke(operation, inputs) ==
  IF inputs.ty \notin {"list", "str"}
  THEN Raises(<<>>, <<"run_algorithm">>)       \* TypeError in len(inputs)
  ELSE LET n == IF inputs.ty = "list" THEN Len(inputs.l) ELSE Len(inputs.s)
       IN  IF n # expected(ALGORITHM_TOOLS[operation])
           THEN Fails(<<"Error: expects input(s)">>, <<"run_algorithm">>)
           ELSE IF inputs.ty = "str" \/ FuncRaises(operation, inputs.l)
           THEN Fails(<<"Performing", "Error: e">>, <<"run_algorithm", "func">>)
           ELSE Returns(<<"Result: ">> \o operation \o <<"(">> \o JoinInts(inputs.l)
                          \o <<") = ">> \o FuncValue(operation, inputs.l),
                        <<"Performing">>, <<"run_algorithm", "func">>)

\* a run_algorithm that measures the inputs before it looks the operation up
run_algorithm_LenFirst(p) ==
  IF ~Has(p, "operation") \/ ~Has(p, "inputs")
  THEN Raises(<<>>, <<"run_algorithm">>)
  ELSE IF p.f["operation"].ty = "list" \/ p.f["inputs"].ty \notin {"list", "str"}
  THEN Raises(<<>>, <<"run_algorithm">>)
  ELSE IF p.f["operation"].ty # "str" \/ p.f["operation"].s \notin DOMAIN ALGORITHM_TOOLS
  THEN Fails(<<"Error: Unknown operation">>, <<"run_algorithm">>)
  ELSE invoke(p.f["operation"].s, p.f["inputs"])

run_algorithm(p) ==
  IF ~Has(p, "operation") \/ ~Has(p, "inputs")
  THEN Raises(<<>>, <<"run_algorithm">>)       \* KeyError
  ELSE IF p.f["operation"].ty = "list"
  THEN Raises(<<>>, <<"run_algorithm">>)       \* TypeError: unhashable type
  ELSE IF p.f["operation"].ty # "str" \/ p.f["operation"].s \notin DOMAIN ALGORITHM_TOOLS
  THEN Fails(<<"Error: Unknown operation">>, <<"run_algorithm">>)
  ELSE invoke(p.f["operation"].s, p.f["inputs"])

(* ------------------------------ dispatch ------------------------------ *)

\* lines 236-246: result = '' and the if/elif chain on parsed['tool']
dispatch(p, ev) ==
  IF p.kind = "None" THEN Outcome(FALSE, RStr(<<>>), <<>>, <<>>)
  ELSE IF p.kind = "other" THEN Raises(<<>>, <<>>)   \* TypeError in parsed['tool']
  ELSE IF ~Has(p, "tool") THEN Raises(<<>>, <<>>)    \* KeyError
  ELSE LET tool == p.f["tool"]
       IN  IF tool.ty = "str" /\ tool.s = S_none
           THEN Outcome(FALSE, RStr(<<>>), <<REFUSAL>>, <<>>)
           ELSE IF tool.ty # "str" THEN Raises(<<>>, <<>>)   \* no .lower()
           ELSE IF Lower(tool.s) = S_calculator THEN calculate(p, ev)
           ELSE IF Lower(tool.s) = S_converter THEN convert(p)
           ELSE IF Lower(tool.s) = S_algorithm THEN run_algorithm(p)
           ELSE Outcome(FALSE, RStr(<<>>), <<>>, <<>>)

(* ------------------- what the user and the model say ------------------ *)

\* lines typed at the prompt
InputLines ==
  { S_exit, <<"E","X","I","T">>, <<"E","x","i","t">>,
    <<"e","x","i","t"," ","n","o","w">>, <<"2","+","2">> }

\* unit strings the model may put in from_unit and to_unit
Units ==
  { S_km, S_miles, S_kg, S_lbs, S_celsius, S_fahrenheit,
    <<"K","M">>, <<"M","i","l","e","s">>,
    <<>>, <<"k","m","_">>, <<"_","m","i","l","e","s">>,
    <<"k","m","_","m","i","l","e","s">> }

\* operation names the model may use: the registry's and some that are not
Operations ==
  DOMAIN ALGORITHM_TOOLS \cup { <<"b","o","g","u","s","_","o","p">>, <<"G","C","D">> }

\* input lists the model may send: every length up to MaxInputs, and values
\* inside and outside the domains of the registry's functions
InputLists ==
  {[i \in 1..n |-> 6] : n \in 0..MaxInputs}
  \cup {<<0>>, <<-1>>, <<7>>, <<6, 1>>, <<6, 0>>, <<0, -1>>, <<6, -1>>}

Obj(tool, expression, value, from_unit, to_unit, operation, inputs) ==
  PyDict([k \in Keys |->
    CASE k = "tool" -> tool
      [] k = "expression" -> expression
      [] k = "value" -> value
      [] k = "from_unit" -> from_unit
      [] k = "to_unit" -> to_unit
      [] k = "operation" -> operation
      [] k = "inputs" -> inputs])

\* objects without a handler payload, under every kind of 'tool'
ToolOnlyObjects ==
  { Obj(t, e, Absent, Absent, Absent, Absent, Absent) :
      t \in { Absent, JNull, JNum(1), JStr(S_none), JStr(<<"N","O","N","E">>),
              JStr(<<"N","o","n","e">>), JStr(<<"p","l","o","t","t","e","r">>), JStr(<<>>),
              JStr(S_calculator), JStr(S_converter), JStr(S_algorithm) },
      e \in { Absent, JStr(<<>>) } }

CalculatorObjects ==
  { Obj(JStr(t), e, Absent, Absent, Absent, Absent, Absent) :
      t \in { S_calculator, <<"C","a","l","c","u","l","a","t","o","r">> },
      e \in { JStr(<<"1","0"," ","+"," ","5">>), JStr(<<"1","0","/","0">>),
              JStr(<<"s","q","r","t","(","2","5",")">>), JStr(<<"'","a","'">>), JNum(5) } }

ConverterObjects ==
  { Obj(JStr(S_converter), Absent, JNum(100), JStr(f), JStr(t), Absent, Absent) :
      f \in Units, t \in Units }
  \cup
  { Obj(JStr(<<"C","O","N","V","E","R","T","E","R">>), Absent, v, f, t, Absent, Absent) :
      v \in { Absent, JNull, JStr(<<"1","0","0">>), JNum(32) },
      f \in { Absent, JNum(1), JStr(S_fahrenheit) },
      t \in { JNull, JStr(S_celsius), JStr(S_km) } }

AlgorithmObjects ==
  { Obj(JStr(S_algorithm), Absent, Absent, Absent, Absent, JStr(n), JList(l)) :
      n \in Operations, l \in InputLists }
  \cup
  { Obj(JStr(<<"A","L","G","O","R","I","T","H","M">>), Absent, Absent, Absent, Absent, o, i) :
      o \in { Absent, JNull, JNum(3), JList(<<1>>), JStr(<<"g","c","d">>),
              JStr(<<"s","i","n">>), JStr(<<"b","o","g","u","s","_","o","p">>) },
      i \in { Absent, JNull, JNum(5), JStr(<<"a","b">>), JStr(<<"a">>), JList(<<6, 0>>) } }

\* texts the model may return in the first call of a turn
Responses ==
  { [wellformed |-> FALSE, json |-> PyNone] }
  \cup
  { [wellformed |-> TRUE, json |-> j] :
      j \in {PyNone, PyOther} \cup ToolOnlyObjects \cup CalculatorObjects
            \cup ConverterObjects \cup AlgorithmObjects }

(* ------------------------- the interactive loop ----------------------- *)

System == [role |-> "system", content |-> SYSTEM_PROMPT]

User(text) == [role |-> "user", content |-> text]

\* `messages + [...]` builds a new list; this is what `messages` holds afterwards
messages_Appended(msgs, text) == msgs \o <<User(text)>>

messages_Kept(msgs, text) == msgs

\* line 231
FirstMessage(msgs, text) == msgs \o <<User(text)>>

\* lines 251-256
SummaryMessage(text, res) ==
  << [role |-> "system", content |-> RESPONSE_PROMPT],
     User(text),
     [role |-> "assistant", content |-> <<"Tool result: ">> \o res.text],
     User(<<"Now summarize that result naturally in one sentence.">>) >>

\* simple_eval is reached only by calculate on a str expression
UsesEval(p) ==
  /\ p.kind = "dict"
  /\ p.f["tool"].ty = "str"
  /\ Lower(p.f["tool"].s) = S_calculator
  /\ p.f["expression"].ty = "str"

Init ==
  /\ pc = "input"
  /\ turn = 0
  /\ user_input = <<>>
  /\ messages = <<System>>
  /\ message = <<>>
  /\ parsed = PyNone
  /\ result = RStr(<<>>)
  /\ out = <<>>
  /\ trace = <<>>

\* lines 227-232: input() returns a line; 'exit' breaks, anything else is sent
ReadLine ==
  /\ pc = "input"
  /\ turn < MaxTurns
  /\ \E line \in InputLines :
       /\ user_input' = line
       /\ turn' = turn + 1
       /\ out' = <<>>
       /\ IF Lower(line) = S_exit
          THEN /\ pc' = "exited"
               /\ trace' = <<>>
               /\ UNCHANGED <<messages, message>>
          ELSE /\ pc' = "chat1"
               /\ trace' = <<"chat1">>
               /\ message' = FirstMessage(messages, line)
               /\ messages' = messages_Kept(messages, line)
  /\ UNCHANGED <<parsed, result>>

\* line 227: input() raises (end of the input stream)
InputFails ==
  /\ pc = "input"
  /\ pc' = "input_error"
  /\ UNCHANGED <<turn, user_input, messages, message, parsed, result, out, trace>>

\* lines 232-257: the first chat() returns; parse, dispatch, then either the
\* second chat() is issued or the loop goes back to input()
FirstCallReturns ==
  /\ pc = "chat1"
  /\ \E content \in Responses :
       LET pr == parse_response(content)
       IN  \E ev \in (IF UsesEval(pr.val)
                       THEN simple_eval(pr.val.f["expression"].s) ELSE {"other"}) :
             LET d == dispatch(pr.val, ev)
             IN  /\ parsed' = pr.val
                 /\ out' = out \o pr.out \o d.out
                 /\ IF d.raised
                    THEN /\ pc' = "uncaught"
                         /\ result' = RStr(<<>>)
                         /\ trace' = trace \o d.trace
                         /\ UNCHANGED message
                    ELSE IF Truthy(d.ret)
                    THEN /\ pc' = "chat2"
                         /\ result' = d.ret
                         /\ trace' = trace \o d.trace \o <<"chat2">>
                         /\ message' = SummaryMessage(user_input, d.ret)
                    ELSE /\ pc' = "input"
                         /\ result' = d.ret
                         /\ trace' = trace \o d.trace
                         /\ UNCHANGED message
  /\ UNCHANGED <<turn, user_input, messages>>

\* lines 257-261: the streamed summary is printed chunk by chunk
SummaryStreams ==
  /\ pc = "chat2"
  /\ pc' = "input"
  /\ out' = out \o <<"<summary>">>
  /\ UNCHANGED <<turn, user_input, messages, message, parsed, result, trace>>

\* lines 232, 257-260: chat() or the stream raises (the model cannot be reached)
ModelCallFails ==
  /\ pc \in {"chat1", "chat2"}
  /\ pc' = "model_error"
  /\ UNCHANGED <<turn, user_input, messages, message, parsed, result, out, trace>>

Next ==
  \/ ReadLine
  \/ InputFails
  \/ FirstCallReturns
  \/ SummaryStreams
  \/ ModelCallFails

Spec == Init /\ [][Next]_vars

(* ------------------------------ properties ---------------------------- *)

Range(q) == {q[i] : i \in 1..Len(q)}

\* parsed, result, out and trace are those of the turn under way: its first
\* call has returned and the dispatch has run (or was cut short)
Dispatched == pc \in {"input", "chat2", "uncaught"} /\ turn > 0 /\ Len(trace) > 0

Handlers == {"calculate", "convert", "run_algorithm"}

HandlerCalled == Range(trace) \cap Handlers # {}

TagIsStr == parsed.kind = "dict" /\ parsed.f["tool"].ty = "str"

\* C1: whatever text the model returns in the first call of a turn, no
\* exception escapes the turn: the loop is never left through an uncaught
\* exception of the parse/dispatch/handler code.
C1_NoToolFailureFatal == pc # "uncaught"

\* C2: the summarization call is made exactly when a handler returned a
\* result string in the turn; it is made once, last, after the first call
\* and the dispatch.
C2_SummaryIffResult ==
  /\ Count(trace, "chat2") <= 1
  /\ (Count(trace, "chat2") = 1) <=> ("result" \in Range(trace))
  /\ "chat2" \in Range(trace) =>
       /\ trace[1] = "chat1"
       /\ trace[Len(trace)] = "chat2"
       /\ trace[Len(trace) - 1] = "result"
       /\ trace[2] \in Handlers
  /\ (Dispatched /\ ~HandlerCalled) => "chat2" \notin Range(trace)
  /\ pc = "chat2" => "chat2" \in Range(trace)

C2_Witness == pc = "chat2" /\ trace = <<"chat1", "convert", "result", "chat2">>

\* C3: a request whose tag is none of the four tags is refused with the
\* fixed message and reaches no handler.
C3_UnknownToolRefused ==
  (Dispatched /\ TagIsStr
     /\ Lower(parsed.f["tool"].s) \notin {S_calculator, S_converter, S_algorithm, S_none})
  => (REFUSAL \in Range(out) /\ ~HandlerCalled /\ pc # "uncaught")

\* C4: the dispatcher takes the branch of the lower-cased tag, for each of the
\* four tags; every case variant of 'none' gets the fixed notice and no handler.
C4_TagCaseInsensitive ==
  (Dispatched /\ TagIsStr) =>
    LET tag == Lower(parsed.f["tool"].s)
    IN  /\ tag = S_calculator => "calculate" \in Range(trace)
        /\ tag = S_converter => "convert" \in Range(trace)
        /\ tag = S_algorithm => "run_algorithm" \in Range(trace)
        /\ tag = S_none => (REFUSAL \in Range(out) /\ ~HandlerCalled)

\* the arity column of the registry table of the specification
SpecArity ==
  (<<"g","c","d">> :> 2) @@ (<<"l","c","m">> :> 2) @@
  (<<"n","t","h","_","r","o","o","t">> :> 2) @@ (<<"l","o","g">> :> 2) @@
  (<<"h","y","p","o","t","e","n","u","s","e">> :> 2) @@
  (<<"f","a","c","t","o","r","i","a","l">> :> 1) @@
  (<<"i","s","_","p","r","i","m","e">> :> 1) @@ (<<"l","o","g","2">> :> 1) @@
  (<<"l","o","g","1","0">> :> 1) @@ (<<"f","i","b","o","n","a","c","c","i">> :> 1) @@
  (<<"c","i","r","c","l","e","_","a","r","e","a">> :> 1) @@
  (<<"s","i","n">> :> 1) @@ (<<"c","o","s">> :> 1) @@ (<<"t","a","n">> :> 1)

\* run_algorithm ran on a registry operation with a list of inputs
AlgorithmOnList ==
  /\ Dispatched
  /\ "run_algorithm" \in Range(trace)
  /\ parsed.f["operation"].ty = "str"
  /\ parsed.f["operation"].s \in DOMAIN SpecArity
  /\ parsed.f["inputs"].ty = "list"

ArityRejected ==
  /\ "Error: expects input(s)" \in Range(out)
  /\ "func" \notin Range(trace)
  /\ result.isNone
  /\ pc = "input"

\* C5: the count derived from each description string is the arity of the
\* table, and run_algorithm rejects a list of inputs (no result, function not
\* invoked) exactly when its length differs from that arity.
C5_ArityFromDescription ==
  /\ DOMAIN ALGORITHM_TOOLS = DOMAIN SpecArity
  /\ \A op \in DOMAIN SpecArity : expected(ALGORITHM_TOOLS[op]) = SpecArity[op]
  /\ AlgorithmOnList =>
       /\ ArityRejected <=>
            Len(parsed.f["inputs"].l) # SpecArity[parsed.f["operation"].s]
       /\ ~ArityRejected => "func" \in Range(trace)

C5_Witness ==
  /\ AlgorithmOnList
  /\ parsed.f["operation"].s = <<"g","c","d">>
  /\ parsed.f["inputs"].l = <<6>>
  /\ ArityRejected

SixPairs ==
  { <<S_km, S_miles>>, <<S_miles, S_km>>, <<S_kg, S_lbs>>, <<S_lbs, S_kg>>,
    <<S_celsius, S_fahrenheit>>, <<S_fahrenheit, S_celsius>> }

\* convert ran on a numeric value and two unit strings
ConvertOnUnits ==
  /\ Dispatched
  /\ "convert" \in Range(trace)
  /\ parsed.f["value"].ty = "num"
  /\ parsed.f["from_unit"].ty = "str"
  /\ parsed.f["to_unit"].ty = "str"

\* C6: convert returns a result for every letter-case variant of the six
\* table pairs.
C6_UnitsCaseInsensitive ==
  (ConvertOnUnits
     /\ <<Lower(parsed.f["from_unit"].s), Lower(parsed.f["to_unit"].s)>> \in SixPairs)
  => ("result" \in Range(trace) /\ ~result.isNone)

\* C7: the loop ends only on a line that is 'exit' in some letter case, and
\* then before any call; every other line gets its first model call, and a
\* turn whose first call returned goes on to read another line (directly or
\* after the summary).
C7_ExitOnlySentinel ==
  [][ /\ (pc = "input" /\ pc' # "input") =>
            \/ pc' = "input_error"
            \/ pc' = "exited" /\ Lower(user_input') = S_exit /\ trace' = <<>>
            \/ pc' = "chat1" /\ Lower(user_input') # S_exit /\ trace' = <<"chat1">>
      /\ (pc = "chat1" /\ pc' # "chat1") => pc' \in {"input", "chat2", "model_error"}
      /\ (pc = "chat2" /\ pc' # "chat2") => pc' \in {"input", "model_error"}
    ]_vars

\* C8: an operation that is not a key of the registry is rejected as unknown
\* whatever the inputs are: no arity check, no function call, no result.
C8_UnknownOperationFirst ==
  (/\ Dispatched
   /\ "run_algorithm" \in Range(trace)
   /\ parsed.f["operation"].ty \in {"str", "num", "null"}
   /\ Has(parsed, "inputs")
   /\ ~(parsed.f["operation"].ty = "str" /\ parsed.f["operation"].s \in DOMAIN SpecArity))
  => /\ pc = "input"
     /\ out = <<"Error: Unknown operation">>
     /\ trace = <<"chat1", "run_algorithm">>
     /\ result.isNone

C8_Witness ==
  /\ pc = "input"
  /\ trace = <<"chat1", "run_algorithm">>
  /\ parsed.f["operation"] = JStr(<<"b","o","g","u","s","_","o","p">>)
  /\ parsed.f["inputs"] = JNum(5)
  /\ out = <<"Error: Unknown operation">>

\* C9: convert returns a result for the six ordered pairs and for no other
\* pair of unit strings; every other pair is reported as unsupported.
C9_ExactlySixPairs ==
  ConvertOnUnits =>
    LET pair == <<parsed.f["from_unit"].s, parsed.f["to_unit"].s>>
    IN  /\ (pair \in SixPairs) <=> ("result" \in Range(trace))
        /\ pair \in SixPairs =>
             /\ ~result.isNone
             /\ pc = "chat2" \/ "<summary>" \in Range(out)
        /\ pair \notin SixPairs =>
             /\ "Error: Unsupported conversion" \in Range(out)
             /\ result.isNone
             /\ pc = "input"

C9_Witness ==
  /\ ConvertOnUnits
  /\ parsed.f["from_unit"].s = <<"k","m","_">>
  /\ parsed.f["to_unit"].s = S_miles
  /\ "Error: Unsupported conversion" \in Range(out)
  /\ result.isNone

\* C10: the transcript `messages` always holds the system instruction alone,
\* and the first call of every turn carries the system instruction followed
\* by that turn's input and nothing else.
C10_TurnsIndependent ==
  /\ messages = <<System>>
  /\ pc = "chat1" => message = <<System, User(user_input)>>

C10_Witness ==
  /\ pc = "chat1"
  /\ turn = 2
  /\ parsed.f["tool"].ty # "absent"
  /\ result # RStr(<<>>)

====
